---- MODULE Spec2Model ----
(***************************************************************************)
(* Model of the Mision AMVISION 10K backend (src/main.py, src/schemas.py). *)
(*                                                                         *)
(* The state is the document store (collections "player", "reward" and     *)
(* "milestone") plus, for every request handler in flight, its position    *)
(* and its local variables; hist and rlog record the responses returned.  *)
(*  Each handler is cut at its store operations: one action     *)
(* holds one store read or write together with the local computation that  *)
(* precedes it.  A collection is a sequence of documents in insertion      *)
(* order; the generated _id of a document is its position.  revenue_usd is *)
(* a float in the code; every value used here is an integer far below      *)
(* 2^53, on which float addition and comparison are exact.                 *)
(***************************************************************************)
EXTENDS Integers, Sequences, FiniteSets, TLC

VARIABLES player, reward, milestone, pc, req, loc, crash, hist, rlog, calls,
          crashes

vars == <<player, reward, milestone, pc, req, loc, crash, hist, rlog, calls,
          crashes>>

\* What complete_milestone and create_player (step by step) leave alone: the
\* milestone collection and the log of the other handlers' responses.
others == <<milestone, rlog>>

\* ------------------------------------------------------------------ bounds
MaxCalls == 3
MaxConcCalls == 2
MaxCrashCalls == 2
MaxCrashes == 1
MaxAwardCalls == 2
MaxRegCalls == 2
MaxRegCompletes == 2
MaxCatCalls == 3
MaxSeed == 2

\* ------------------------------------------------------- program constants
BaseReward == 100
DefaultSpeedReward == 30
WorldThreshold == 1000
MissingOrder == 999

\* ------------------------------------------------------------ input values
None == "None"
Procs == {1, 2}
Names == {"Ann"}
AllMilestoneIds == {"m1", "m2"}
\* Optional[float]: <<>> is an absent value, <<v>> the value v.
Absent == <<>>
AllIncreases == {Absent, <<400>>, <<1000>>, <<-400>>}

\* ----------------------------------------------------------------- helpers
Range(s) == {s[i] : i \in DOMAIN s}

\* list(completed): a list holding each element of the set once, in the
\* iteration order of the set, which the program does not control.
ListOfSet(S) ==
    {s \in [1..Cardinality(S) -> S] : Range(s) = S}

\* Player(name=..., email=...) with the defaults of the schema.
NewPlayer(id, name, email) ==
    [_id |-> id, name |-> name, email |-> email, av_coins |-> 0,
     revenue_usd |-> 0, completed_milestones |-> <<>>,
     unlocked_worlds |-> <<>>]

\* find_one returning nothing.
NoDoc == NewPlayer(0, "", "")

FindOneNone(email) == NoDoc

FindOneFirst(email) == IF player = <<>> THEN NoDoc ELSE player[1]

\* db["player"].find_one({"email": email}): the first matching document.
FindOne(email) ==
    LET hits == {i \in DOMAIN player : player[i].email = email}
    IN IF hits = {} THEN NoDoc
       ELSE player[CHOOSE i \in hits : \A j \in hits : i <= j]

\* create_document(collection, doc): insert, the new _id is returned.
CreateDocument(coll, doc) == Append(coll, doc)

LowerIdentity(s) == s

\* str.lower() on the speed values used here.
Lower(s) ==
    CASE s = "FAST" -> "fast"
      [] s = "Fast" -> "fast"
      [] s = "SLOW" -> "slow"
      [] OTHER -> s

\* (payload.speed or "normal").lower()
SpeedOf(speed) == Lower(IF speed = None \/ speed = "" THEN "normal" ELSE speed)

\* {"fast": 50, "normal": 30, "slow": 15}.get(speed, 30)
SpeedReward(speed) ==
    CASE speed = "fast" -> 50
      [] speed = "normal" -> 30
      [] speed = "slow" -> 15
      [] OTHER -> DefaultSpeedReward

AwardForBase(speed) == BaseReward

\* coins = 100 + speed_reward
AwardFor(speed) == BaseReward + SpeedReward(SpeedOf(speed))

\* float(payload.revenue_increase or 0)
RevInc(x) == IF x = Absent THEN 0 ELSE x[1]

AlreadyCompletedAlways(milestone_id, completed) == FALSE

\* payload.milestone_id in completed
AlreadyCompleted(milestone_id, completed) == milestone_id \in completed

PushToList(list, x) == Append(list, x)

\* $addToSet
AddToSet(list, x) == IF x \in Range(list) THEN list ELSE Append(list, x)

CoinUpdateFromSnapshot(p, doc, lst) ==
    [doc EXCEPT !.completed_milestones = lst,
                !.av_coins = loc[p].player.av_coins + loc[p].coins]

CoinUpdateNoCompleted(p, doc, lst) ==
    [doc EXCEPT !.av_coins = @ + loc[p].coins]

\* {"$set": {"completed_milestones": list(completed)}, "$inc": {"av_coins": coins}}
CoinUpdate(p, doc, lst) ==
    [doc EXCEPT !.completed_milestones = lst,
                !.av_coins = @ + loc[p].coins]

NewRevenueGated(p) ==
    loc[p].player.revenue_usd +
        (IF loc[p].coins > 0 THEN RevInc(req[p].revenue_increase) ELSE 0)

\* new_revenue = float(player.get("revenue_usd", 0)) + rev_inc
NewRevenue(p) == loc[p].player.revenue_usd + RevInc(req[p].revenue_increase)

ShouldUnlockNoMembership(new_revenue, worlds) == new_revenue >= WorldThreshold

ShouldUnlockStrict(new_revenue, worlds) ==
    new_revenue > WorldThreshold /\ "world_1" \notin Range(worlds)

\* new_revenue >= 1000 and "world_1" not in player.get("unlocked_worlds", [])
ShouldUnlock(new_revenue, worlds) ==
    new_revenue >= WorldThreshold /\ "world_1" \notin Range(worlds)

\* The stored document that the filter {"_id": id} selects.
Stored(id) == player[CHOOSE i \in DOMAIN player : player[i]._id = id]

\* update_one({"_id": id}, mutation): the selected document becomes doc, the
\* result of the mutation on its stored value; every other one is left alone.
UpdateOne(id, doc) ==
    [i \in DOMAIN player |-> IF player[i]._id = id THEN doc ELSE player[i]]

NoLocals ==
    [player |-> NoDoc, completed |-> {}, coins |-> 0, new_revenue |-> 0,
     unlocked |-> None]

NoRequest ==
    [name |-> "", player_email |-> "", milestone_id |-> "", speed |-> None,
     revenue_increase |-> Absent]

NoCrash == [at |-> "none", player |-> NoDoc, coins |-> 0]

\* ------------------------------------------------------------------- Init
Init ==
    /\ player = <<>>
    /\ reward = <<>>
    /\ milestone = <<>>
    /\ rlog = <<>>
    /\ pc = [p \in Procs |-> "idle"]
    /\ req = [p \in Procs |-> NoRequest]
    /\ loc = [p \in Procs |-> NoLocals]
    /\ crash = [p \in Procs |-> NoCrash]
    /\ hist = <<>>
    /\ calls = 0
    /\ crashes = 0

\* ------------------------------------------------------- create_player
\* find_one by email.  For an existing player the handler returns its id
\* and writes nothing: that call leaves every variable as it is.
RegisterFind(p, emails) ==
    /\ pc[p] = "idle"
    /\ \E name \in Names, email \in emails :
         /\ FindOne(email) = NoDoc
         /\ pc' = [pc EXCEPT ![p] = "reg_insert"]
         /\ req' = [req EXCEPT ![p] = [NoRequest EXCEPT !.player_email = email,
                                                        !.name = name]]
    /\ loc' = [loc EXCEPT ![p] = NoLocals]
    /\ crash' = [crash EXCEPT ![p] = NoCrash]
    /\ UNCHANGED <<player, reward, hist, calls, crashes>>
    /\ UNCHANGED others

\* create_document("player", Player(name, email))
RegisterInsert(p) ==
    /\ pc[p] = "reg_insert"
    /\ player' = CreateDocument(player,
                     NewPlayer(Len(player) + 1, req[p].name, req[p].player_email))
    /\ pc' = [pc EXCEPT ![p] = "idle"]
    /\ UNCHANGED <<reward, req, loc, crash, hist, calls, crashes>>
    /\ UNCHANGED others

\* ---------------------------------------------------- complete_milestone
NotFoundEntry(payload) ==
    [status |-> 404, player_id |-> 0, milestone_id |-> payload.milestone_id,
     rev_inc |-> RevInc(payload.revenue_increase), av_coins_awarded |-> 0,
     revenue_usd |-> 0, unlocked_world |-> None, coins_before |-> 0,
     coins_after |-> 0, retry |-> FALSE]

\* lines 127-129: look the player up, 404 when absent.
FindWith(p, payload, isRetry) ==
    LET found == FindOne(payload.player_email)
    IN /\ req' = [req EXCEPT ![p] = payload]
       /\ IF found = NoDoc
            THEN /\ hist' = Append(hist, [NotFoundEntry(payload) EXCEPT !.retry = isRetry])
                 /\ pc' = [pc EXCEPT ![p] = "idle"]
                 /\ loc' = [loc EXCEPT ![p] = NoLocals]
            ELSE /\ hist' = hist
                 /\ pc' = [pc EXCEPT ![p] = "award"]
                 /\ loc' = [loc EXCEPT ![p] = [NoLocals EXCEPT !.player = found]]
       /\ UNCHANGED <<player, reward>>

CompleteFind(p, max, emails, speeds, incs) ==
    /\ pc[p] = "idle"
    /\ calls < max
    /\ calls' = calls + 1
    /\ crash' = [crash EXCEPT ![p] = NoCrash]
    /\ \E email \in emails, mid \in AllMilestoneIds, speed \in speeds, inc \in incs :
         FindWith(p, [NoRequest EXCEPT !.player_email = email,
                                       !.milestone_id = mid,
                                       !.speed = speed,
                                       !.revenue_increase = inc], FALSE)
    /\ UNCHANGED crashes
    /\ UNCHANGED others

\* lines 132-146: the award decision and the reward record.
Award(p) ==
    /\ pc[p] = "award"
    /\ LET pl == loc[p].player
           completed == Range(pl.completed_milestones)
           mid == req[p].milestone_id
           speed == SpeedOf(req[p].speed)
           coins == AwardFor(req[p].speed)
       IN IF AlreadyCompleted(mid, completed)
            THEN /\ loc' = [loc EXCEPT ![p].completed = completed, ![p].coins = 0]
                 /\ pc' = [pc EXCEPT ![p] = "unlock"]
                 /\ reward' = reward
            ELSE /\ loc' = [loc EXCEPT ![p].completed = completed \cup {mid},
                                       ![p].coins = coins]
                 /\ reward' = CreateDocument(reward,
                        [player_id |-> pl._id, milestone_id |-> mid,
                         reason |-> <<"Completed", mid, speed>>, coins |-> coins])
                 /\ pc' = [pc EXCEPT ![p] = "coinwrite"]
    /\ UNCHANGED <<player, req, crash, hist, calls, crashes>>
    /\ UNCHANGED others

\* lines 147-150: completed list and coin balance, one update.
CoinWrite(p) ==
    /\ pc[p] = "coinwrite"
    /\ \E lst \in ListOfSet(loc[p].completed) :
         player' = UpdateOne(loc[p].player._id,
                             CoinUpdate(p, Stored(loc[p].player._id), lst))
    /\ pc' = [pc EXCEPT ![p] = "unlock"]
    /\ UNCHANGED <<reward, req, loc, crash, hist, calls, crashes>>
    /\ UNCHANGED others

\* lines 153-158: new revenue from the snapshot, world unlock.
Unlock(p) ==
    /\ pc[p] = "unlock"
    /\ LET pl == loc[p].player
           new_revenue == NewRevenue(p)
           unlocked == [Stored(pl._id) EXCEPT
                           !.unlocked_worlds = AddToSet(@, "world_1")]
       IN IF ShouldUnlock(new_revenue, pl.unlocked_worlds)
            THEN /\ loc' = [loc EXCEPT ![p].new_revenue = new_revenue,
                                       ![p].unlocked = "world_1"]
                 /\ player' = UpdateOne(pl._id, unlocked)
            ELSE /\ loc' = [loc EXCEPT ![p].new_revenue = new_revenue,
                                       ![p].unlocked = None]
                 /\ player' = player
    /\ pc' = [pc EXCEPT ![p] = "revwrite"]
    /\ UNCHANGED <<reward, req, crash, hist, calls, crashes>>
    /\ UNCHANGED others

\* lines 160-167: the revenue write and the response.
RevWrite(p) ==
    /\ pc[p] = "revwrite"
    /\ player' = UpdateOne(loc[p].player._id,
                        [Stored(loc[p].player._id) EXCEPT
                            !.revenue_usd = loc[p].new_revenue])
    /\ hist' = Append(hist,
          [status |-> 200, player_id |-> loc[p].player._id,
           milestone_id |-> req[p].milestone_id,
           rev_inc |-> RevInc(req[p].revenue_increase),
           av_coins_awarded |-> loc[p].coins,
           revenue_usd |-> loc[p].new_revenue,
           unlocked_world |-> loc[p].unlocked,
           coins_before |-> loc[p].player.av_coins,
           coins_after |-> player'[loc[p].player._id].av_coins,
           retry |-> crash[p].at # "none"])
    /\ pc' = [pc EXCEPT ![p] = "idle"]
    /\ UNCHANGED <<reward, req, loc, crash, calls, crashes>>
    /\ UNCHANGED others

\* The process dies inside complete_milestone, between two store operations.
Crash(p) ==
    /\ pc[p] \in {"award", "coinwrite", "unlock", "revwrite"}
    /\ crashes < MaxCrashes
    /\ crashes' = crashes + 1
    /\ crash' = [crash EXCEPT ![p] = [at |-> pc[p], player |-> loc[p].player,
                                      coins |-> loc[p].coins]]
    /\ pc' = [pc EXCEPT ![p] = "crashed"]
    /\ UNCHANGED <<player, reward, req, loc, hist, calls>>
    /\ UNCHANGED others

\* The caller sends the same request again.
Retry(p) ==
    /\ pc[p] = "crashed"
    /\ FindWith(p, req[p], TRUE)
    /\ UNCHANGED <<crash, calls, crashes>>
    /\ UNCHANGED others

\* ---------------------------------------------------------- specifications
SeqEmails == {"a@x.com"}
SeqSpeeds == {"fast", "slow"}
ConcIncreases == {Absent, <<1000>>}
ConcSpeeds == {"fast", "slow"}
CrashSpeeds == {"FAST", None}

\* Sequential calls: one handler at a time.
Next ==
    \/ RegisterFind(1, SeqEmails)
    \/ RegisterInsert(1)
    \/ CompleteFind(1, MaxCalls, SeqEmails, SeqSpeeds, AllIncreases)
    \/ Award(1)
    \/ CoinWrite(1)
    \/ Unlock(1)
    \/ RevWrite(1)

Spec == Init /\ [][Next]_vars

\* Concurrent handlers interleaved at single store operations.
NextConc ==
    \E p \in Procs :
        \/ RegisterFind(p, SeqEmails)
        \/ RegisterInsert(p)
        \/ CompleteFind(p, MaxConcCalls, SeqEmails, ConcSpeeds, ConcIncreases)
        \/ Award(p)
        \/ CoinWrite(p)
        \/ Unlock(p)
        \/ RevWrite(p)

SpecConc == Init /\ [][NextConc]_vars

\* Sequential calls with crashes and retries.
NextCrash ==
    \/ RegisterFind(1, SeqEmails)
    \/ RegisterInsert(1)
    \/ CompleteFind(1, MaxCrashCalls, SeqEmails, CrashSpeeds, AllIncreases)
    \/ Award(1)
    \/ CoinWrite(1)
    \/ Unlock(1)
    \/ RevWrite(1)
    \/ Crash(1)
    \/ Retry(1)

SpecCrash == Init /\ [][NextCrash]_vars

\* Sequential calls over every kind of speed value: the three recognised
\* ones, other spellings of them, an unknown one, the empty string, none.
AwardSpeeds == {"fast", "normal", "slow", "FAST", "Fast", "SLOW", "turbo", "", None}
NoIncrease == {Absent}

NextAward ==
    \/ RegisterFind(1, SeqEmails)
    \/ RegisterInsert(1)
    \/ CompleteFind(1, MaxAwardCalls, SeqEmails, AwardSpeeds, NoIncrease)
    \/ Award(1)
    \/ CoinWrite(1)
    \/ Unlock(1)
    \/ RevWrite(1)

SpecAward == Init /\ [][NextAward]_vars

\* ------------------------------------------- create_player, player_summary
\* A response of a handler other than complete_milestone.
Response(op, name, email, status, value, body) ==
    [op |-> op, name |-> name, email |-> email, status |-> status,
     value |-> value, body |-> body]

\* create_player as one step, lines 88-98: find by email, return the id of
\* the player found, else insert a new player and return the new id.
CreatePlayer(p, names, emails, max) ==
    /\ pc[p] = "idle"
    /\ Len(rlog) < max
    /\ \E name \in names, email \in emails :
         LET found == FindOne(email)
             new_id == Len(player) + 1
         IN IF found # NoDoc
              THEN /\ player' = player
                   /\ rlog' = Append(rlog,
                         Response("create_player", name, email, 200, found._id, <<>>))
              ELSE /\ player' = CreateDocument(player, NewPlayer(new_id, name, email))
                   /\ rlog' = Append(rlog,
                         Response("create_player", name, email, 200, new_id, <<>>))
    /\ UNCHANGED <<reward, milestone, pc, req, loc, crash, hist, calls, crashes>>

\* The projection player_summary returns, lines 176-183.
Summary(doc) ==
    [name |-> doc.name, email |-> doc.email, av_coins |-> doc.av_coins,
     revenue_usd |-> doc.revenue_usd,
     completed_milestones |-> doc.completed_milestones,
     unlocked_worlds |-> doc.unlocked_worlds]

\* player_summary, lines 169-183: 404 when no player has the email.
PlayerSummary(p, emails, max) ==
    /\ pc[p] = "idle"
    /\ Len(rlog) < max
    /\ \E email \in emails :
         LET found == FindOne(email)
         IN rlog' = Append(rlog,
               IF found = NoDoc
                 THEN Response("player_summary", "", email, 404, 0, <<>>)
                 ELSE Response("player_summary", "", email, 200, found._id,
                               <<Summary(found)>>))
    /\ UNCHANGED <<player, reward, milestone, pc, req, loc, crash, hist, calls,
                   crashes>>

RegNames == {"Ann", "Bob"}
RegEmails == {"a@x.com", "b@x.com"}
RegSpeeds == {"fast"}
RegIncreases == {<<1000>>}

\* Sequential registrations, summaries and completions for two emails.
NextReg ==
    \/ CreatePlayer(1, RegNames, RegEmails, MaxRegCalls)
    \/ PlayerSummary(1, RegEmails, MaxRegCalls)
    \/ CompleteFind(1, MaxRegCompletes, RegEmails, RegSpeeds, RegIncreases)
    \/ Award(1)
    \/ CoinWrite(1)
    \/ Unlock(1)
    \/ RevWrite(1)

SpecReg == Init /\ [][NextReg]_vars

\* ------------------------------------------------ bootstrap, list_milestones
\* One catalog item; an order is <<n>>, a document without one has Absent.
Item(id, title, order) == [milestone_id |-> id, title |-> title, order |-> <<order>>]

\* The catalog of lines 63-75 (titles without their emoji).
Catalog ==
    << Item("m1",  "Email y WhatsApp de Bienvenida es Enviado", 1),
       Item("m2",  "Formulario de Onboarding es completado", 2),
       Item("m3",  "Llamada de Onboarding es llamada completada", 3),
       Item("m4",  "Status es Producto Ganador", 4),
       Item("m5",  "Status es Elegido Proveedor", 5),
       Item("m6",  "Status es Confirmado", 6),
       Item("m7",  "Tienda, Status es Creada", 7),
       Item("m8",  "Business Manager Status es Creado", 8),
       Item("m9",  "Primeros ADS Subidos", 9),
       Item("m10", "Primera Venta", 10),
       Item("m11", "$1.000USD Facturacion", 11) >>

\* The stored form of an item: the store adds the _id.
WithId(item, id) ==
    [_id |-> id, milestone_id |-> item.milestone_id, title |-> item.title,
     order |-> item.order]

\* d.pop("_id", None)
StripId(doc) ==
    [milestone_id |-> doc.milestone_id, title |-> doc.title, order |-> doc.order]

\* existing = {m.get("milestone_id") for m in db["milestone"].find(...)}
ExistingIds(store) == {store[i].milestone_id : i \in DOMAIN store}

IsMissingAlways(id, existing) == TRUE

\* item["milestone_id"] not in existing
IsMissing(id, existing) == id \notin existing

\* The loop of lines 76-80 from catalog item k on: the store and the count
\* of created entries it ends with.
RECURSIVE BootstrapFrom(_, _, _, _)
BootstrapFrom(store, existing, created, k) ==
    IF k > Len(Catalog) THEN [store |-> store, created |-> created]
    ELSE IF IsMissing(Catalog[k].milestone_id, existing)
      THEN BootstrapFrom(CreateDocument(store, WithId(Catalog[k], Len(store) + 1)),
                         existing, created + 1, k + 1)
      ELSE BootstrapFrom(store, existing, created, k + 1)

BootstrapReseed(store) ==
    [store |-> [k \in DOMAIN Catalog |-> WithId(Catalog[k], k)],
     created |-> Len(Catalog)]

\* bootstrap, lines 61-81, on a milestone collection.
BootstrapResult(store) == BootstrapFrom(store, ExistingIds(store), 0, 1)

\* bootstrap as one step.
Bootstrap(p, max) ==
    /\ pc[p] = "idle"
    /\ Len(rlog) < max
    /\ milestone' = BootstrapResult(milestone).store
    /\ rlog' = Append(rlog,
          Response("bootstrap", "", "", 200, BootstrapResult(milestone).created, <<>>))
    /\ UNCHANGED <<player, reward, pc, req, loc, crash, hist, calls, crashes>>

\* get_documents("milestone", {}, None): every document of the collection.
GetDocuments(coll) == coll

OrderKeyFirst(doc) == IF doc.order = Absent THEN 0 ELSE doc.order[1]

\* key=lambda x: x.get("order", 999)
OrderKey(doc) == IF doc.order = Absent THEN MissingOrder ELSE doc.order[1]

\* One element put into a sorted list behind every element whose key is not
\* greater than its own.
RECURSIVE InsertSorted(_, _)
InsertSorted(sorted, doc) ==
    IF sorted = <<>> THEN <<doc>>
    ELSE IF OrderKey(sorted[Len(sorted)]) <= OrderKey(doc) THEN Append(sorted, doc)
    ELSE Append(InsertSorted(SubSeq(sorted, 1, Len(sorted) - 1), doc),
                sorted[Len(sorted)])

\* docs.sort(key=...): list.sort is stable.
RECURSIVE SortDocs(_)
SortDocs(docs) ==
    IF docs = <<>> THEN <<>>
    ELSE InsertSorted(SortDocs(SubSeq(docs, 1, Len(docs) - 1)), docs[Len(docs)])

\* list_milestones, lines 100-108.
ListResult(store) ==
    LET docs == SortDocs(GetDocuments(store))
    IN [i \in DOMAIN docs |-> StripId(docs[i])]

ListMilestones(p, max) ==
    /\ pc[p] = "idle"
    /\ Len(rlog) < max
    /\ rlog' = Append(rlog,
          Response("list_milestones", "", "", 200, 0, ListResult(milestone)))
    /\ UNCHANGED <<player, reward, milestone, pc, req, loc, crash, hist, calls,
                   crashes>>

\* Documents a milestone collection may hold before bootstrap first runs:
\* catalog entries, an m1 with an older title and order, and entries that
\* are not in the catalog, one without an order, one with a large order.
SeedDocs ==
    { Catalog[1], Catalog[11],
      Item("m1", "Bienvenida", 5),
      [milestone_id |-> "x1", title |-> "Extra", order |-> Absent],
      Item("x2", "Bonus", 1000) }

SeedStores ==
    UNION {[1..n -> SeedDocs] : n \in 0..MaxSeed}

InitCat ==
    /\ player = <<>>
    /\ reward = <<>>
    /\ \E seed \in SeedStores :
          milestone = [i \in DOMAIN seed |-> WithId(seed[i], i)]
    /\ rlog = <<>>
    /\ pc = [p \in Procs |-> "idle"]
    /\ req = [p \in Procs |-> NoRequest]
    /\ loc = [p \in Procs |-> NoLocals]
    /\ crash = [p \in Procs |-> NoCrash]
    /\ hist = <<>>
    /\ calls = 0
    /\ crashes = 0

\* Sequential bootstrap and list calls on any seeded collection.
NextCat ==
    \/ Bootstrap(1, MaxCatCalls)
    \/ ListMilestones(1, MaxCatCalls)

SpecCat == InitCat /\ [][NextCat]_vars

\* ------------------------------------------------------------------ claims
\* Indices of the successful calls recorded so far for one player.
CallsOf(k) == {i \in DOMAIN hist : hist[i].status = 200 /\ hist[i].player_id = k}

\* Successful calls of the same player with the same milestone id before call i.
EarlierSame(i) ==
    {j \in CallsOf(hist[i].player_id) :
        j < i /\ hist[j].milestone_id = hist[i].milestone_id}

\* Sum of the coins the calls I returned.
RECURSIVE SumAwarded(_)
SumAwarded(I) ==
    IF I = {} THEN 0
    ELSE LET i == CHOOSE x \in I : TRUE
         IN hist[i].av_coins_awarded + SumAwarded(I \ {i})

\* Sum of the revenue increases the calls I asked for.
RECURSIVE SumIncrease(_)
SumIncrease(I) ==
    IF I = {} THEN 0
    ELSE LET i == CHOOSE x \in I : TRUE
         IN hist[i].rev_inc + SumIncrease(I \ {i})

\* Stored revenue seen by call i: what the previous call of the player wrote.
RevenueBefore(i) ==
    LET prev == {j \in CallsOf(hist[i].player_id) : j < i}
    IN IF prev = {} THEN 0
       ELSE hist[CHOOSE j \in prev : \A l \in prev : l <= j].revenue_usd

UnlockedBefore(i) ==
    \E j \in CallsOf(hist[i].player_id) : j < i /\ hist[j].unlocked_world = "world_1"

AllIdle == \A p \in Procs : pc[p] = "idle"

NoDuplicates(list) ==
    \A i, j \in DOMAIN list : list[i] = list[j] => i = j

RewardsFor(k, mid) ==
    {i \in DOMAIN reward : reward[i].player_id = k /\ reward[i].milestone_id = mid}

\* C1: in a sequential run, a call awards coins exactly when it is the first
\* successful call of that player with that milestone id; every later call
\* with the id returns 0 and leaves the stored balance as it found it, so the
\* coins granted for an id are those of its first call and the stored balance
\* is the sum of the first-call awards.
C1_AwardOnlyOnFirstCall ==
    /\ \A i \in DOMAIN hist : hist[i].status = 200 =>
          /\ (hist[i].av_coins_awarded > 0) <=> (EarlierSame(i) = {})
          /\ EarlierSame(i) # {} =>
                /\ hist[i].av_coins_awarded = 0
                /\ hist[i].coins_after = hist[i].coins_before
          /\ hist[i].coins_after = hist[i].coins_before + hist[i].av_coins_awarded
    /\ AllIdle =>
          \A k \in DOMAIN player :
              /\ player[k].av_coins = SumAwarded(CallsOf(k))
              /\ \A mid \in AllMilestoneIds :
                    LET same == {i \in CallsOf(k) : hist[i].milestone_id = mid}
                    IN same # {} =>
                         SumAwarded(same) =
                             hist[CHOOSE i \in same : \A j \in same : i <= j].av_coins_awarded

\* A milestone was completed twice: 150 coins the first time, none the second.
C1_Witness ==
    /\ Len(hist) >= 2
    /\ hist[1].status = 200 /\ hist[2].status = 200
    /\ hist[1].milestone_id = hist[2].milestone_id
    /\ hist[1].av_coins_awarded = 150
    /\ hist[2].av_coins_awarded = 0
    /\ AllIdle /\ player[1].av_coins = 150

\* C2: in a sequential run from revenue 0 with non-negative increases, the
\* revenue a call returns and the revenue stored after it are the sum of the
\* increases so far, and world_1 is reported by exactly the first call whose
\* new revenue reaches 1000.
C2_RevenueSumAndSingleUnlock ==
    \A k \in DOMAIN player :
        (\A i \in CallsOf(k) : hist[i].rev_inc >= 0) =>
            /\ \A i \in CallsOf(k) :
                  /\ hist[i].revenue_usd =
                        SumIncrease({j \in CallsOf(k) : j <= i})
                  /\ (hist[i].unlocked_world = "world_1") <=>
                        /\ hist[i].revenue_usd >= WorldThreshold
                        /\ \A j \in CallsOf(k) :
                              j < i => hist[j].revenue_usd < WorldThreshold
            /\ AllIdle =>
                  player[k].revenue_usd = SumIncrease(CallsOf(k))

\* 400 + 400 + 400: revenue 1200, the unlock reported by the third call only.
C2_Witness ==
    /\ Len(hist) = 3
    /\ \A i \in 1..3 : hist[i].status = 200 /\ hist[i].rev_inc = 400
    /\ hist[1].unlocked_world = None /\ hist[2].unlocked_world = None
    /\ hist[3].unlocked_world = "world_1"
    /\ AllIdle /\ player[1].revenue_usd = 1200
    /\ player[1].unlocked_worlds = <<"world_1">>

\* C3: a repeat call (its milestone id already completed by an earlier call)
\* returns 0 coins and still runs the revenue path: it returns and stores the
\* revenue it found plus its increase, and it unlocks and reports world_1
\* exactly when that revenue reaches 1000 and world_1 was not unlocked before.
C3_RepeatStillAppliesRevenue ==
    \A i \in DOMAIN hist :
        (hist[i].status = 200 /\ EarlierSame(i) # {}) =>
            /\ hist[i].av_coins_awarded = 0
            /\ hist[i].revenue_usd = RevenueBefore(i) + hist[i].rev_inc
            /\ (hist[i].unlocked_world = "world_1") <=>
                  (hist[i].revenue_usd >= WorldThreshold /\ ~UnlockedBefore(i))
            /\ (AllIdle /\ i = Len(hist)) =>
                  /\ player[hist[i].player_id].revenue_usd = hist[i].revenue_usd
                  /\ hist[i].unlocked_world = "world_1" =>
                        "world_1" \in Range(player[hist[i].player_id].unlocked_worlds)

\* m1 fast: 150 coins, revenue 0, no unlock; m1 again, slow, increase 1000:
\* 0 coins, revenue 1000, world_1.
C3_Witness ==
    /\ Len(hist) = 2 /\ AllIdle
    /\ hist[1].status = 200 /\ hist[1].milestone_id = "m1"
    /\ hist[1].av_coins_awarded = 150 /\ hist[1].revenue_usd = 0
    /\ hist[1].unlocked_world = None
    /\ hist[2].status = 200 /\ hist[2].milestone_id = "m1"
    /\ req[1].speed = "slow"
    /\ hist[2].av_coins_awarded = 0 /\ hist[2].revenue_usd = 1000
    /\ hist[2].unlocked_world = "world_1"
    /\ player[1].revenue_usd = 1000
    /\ player[1].unlocked_worlds = <<"world_1">>

\* C5: between sequential calls the reward log holds exactly one record for
\* each completed milestone of each player and none for any other, and a
\* step only ever appends to the log.
C5_OneRewardPerCompletion ==
    /\ [](AllIdle =>
            \A k \in DOMAIN player : \A mid \in AllMilestoneIds :
                Cardinality(RewardsFor(k, mid)) =
                    IF mid \in Range(player[k].completed_milestones) THEN 1 ELSE 0)
    /\ [][SubSeq(reward', 1, Len(reward)) = reward]_vars

\* Three calls, one of them a duplicate: two completions, two reward records.
C5_Witness ==
    /\ AllIdle /\ Len(hist) = 3
    /\ \A i \in 1..3 : hist[i].status = 200
    /\ Len(reward) = 2
    /\ Range(player[1].completed_milestones) = {"m1", "m2"}

\* C6: the stored revenue of a player is never negative and never decreases.
C6_RevenueNeverDecreases ==
    /\ [](\A k \in DOMAIN player : player[k].revenue_usd >= 0)
    /\ [][\A k \in DOMAIN player : player'[k].revenue_usd >= player[k].revenue_usd]_vars

\* Calls of player k with milestone id mid that returned a non-zero award.
AwardingCalls(k, mid) ==
    {i \in CallsOf(k) : hist[i].milestone_id = mid /\ hist[i].av_coins_awarded > 0}

\* C4: with interleaved handlers every non-zero award a call returns is
\* backed by its own reward record and its own increment of the balance, and
\* two handlers that both read the player before the id was stored both
\* award; so two concurrent requests for one new id can both return a
\* non-zero award, with the balance incremented twice and two reward records.
C4_ConcurrentDoubleAward ==
    /\ \A p, q \in Procs :
          (/\ p # q
           /\ pc[p] \in {"coinwrite", "unlock", "revwrite"}
           /\ pc[q] \in {"coinwrite", "unlock", "revwrite"}
           /\ loc[p].player._id = loc[q].player._id
           /\ req[p].milestone_id = req[q].milestone_id
           /\ req[p].milestone_id \notin Range(loc[p].player.completed_milestones)
           /\ req[q].milestone_id \notin Range(loc[q].player.completed_milestones))
          => (loc[p].coins > 0 /\ loc[q].coins > 0)
    /\ AllIdle =>
          \A k \in DOMAIN player :
              /\ player[k].av_coins = SumAwarded(CallsOf(k))
              /\ \A mid \in AllMilestoneIds :
                    Cardinality(RewardsFor(k, mid)) = Cardinality(AwardingCalls(k, mid))

\* Both requests for the same new id were awarded: 150 + 115 coins credited,
\* two reward records for the one milestone.
C4_Witness ==
    /\ AllIdle /\ Len(hist) = 2
    /\ hist[1].status = 200 /\ hist[2].status = 200
    /\ hist[1].player_id = 1 /\ hist[2].player_id = 1
    /\ hist[1].milestone_id = "m1" /\ hist[2].milestone_id = "m1"
    /\ hist[1].av_coins_awarded > 0 /\ hist[2].av_coins_awarded > 0
    /\ hist[1].av_coins_awarded # hist[2].av_coins_awarded
    /\ player[1].av_coins = 150 + 115
    /\ Cardinality(RewardsFor(1, "m1")) = 2
    /\ player[1].completed_milestones = <<"m1">>

\* C7: under any interleaving the coin balance of every player is a
\* non-negative integer and no step lowers it.
C7_CoinsNeverDecrease ==
    /\ [](\A k \in DOMAIN player : player[k].av_coins \in Nat)
    /\ [][/\ Len(player') >= Len(player)
          /\ \A k \in DOMAIN player : player'[k].av_coins >= player[k].av_coins]_vars

\* Two handlers read balance 0, then both credited: the second credit was
\* added to the first although it was computed from the stale read.
C7_Witness ==
    /\ AllIdle /\ Len(hist) = 2
    /\ hist[1].status = 200 /\ hist[2].status = 200
    /\ hist[1].milestone_id # hist[2].milestone_id
    /\ hist[1].coins_before = 0 /\ hist[2].coins_before = 0
    /\ hist[1].av_coins_awarded > 0 /\ hist[2].av_coins_awarded > 0
    /\ player[1].av_coins = hist[1].av_coins_awarded + hist[2].av_coins_awarded

\* C8: under any interleaving no milestone id occurs twice in a player's
\* completed_milestones and no world id occurs twice in unlocked_worlds.
C8_NoDuplicateIds ==
    \A k \in DOMAIN player :
        /\ NoDuplicates(player[k].completed_milestones)
        /\ NoDuplicates(player[k].unlocked_worlds)

\* Two interleaved handlers both issued the world_1 unlock and both wrote
\* the same milestone: each id is stored once.
C8_Witness ==
    /\ AllIdle /\ Len(hist) = 2
    /\ hist[1].unlocked_world = "world_1" /\ hist[2].unlocked_world = "world_1"
    /\ hist[1].milestone_id = hist[2].milestone_id
    /\ hist[1].av_coins_awarded > 0 /\ hist[2].av_coins_awarded > 0
    /\ player[1].unlocked_worlds = <<"world_1">>
    /\ Len(player[1].completed_milestones) = 1

\* C9: a crash inside complete_milestone leaves no reward record whose
\* milestone is not stored as completed, and does not leave world_1 newly
\* unlocked while the stored revenue is below 1000.
C9_OnlyCoinRevenueWindow ==
    \A p \in Procs :
        pc[p] = "crashed" =>
            LET k == crash[p].player._id
            IN /\ \A i \in DOMAIN reward :
                     reward[i].player_id = k =>
                         reward[i].milestone_id \in Range(player[k].completed_milestones)
               /\ ("world_1" \in Range(player[k].unlocked_worlds)
                   /\ "world_1" \notin Range(crash[p].player.unlocked_worlds))
                  => player[k].revenue_usd >= WorldThreshold

\* The request crashed after its coin write and before its revenue write.
CrashedInWindow(p) ==
    /\ crash[p].at \in {"unlock", "revwrite"}
    /\ crash[p].coins > 0

\* C10: after a crash between the coin write and the revenue write the
\* record holds the milestone and the coins, with the revenue unchanged; the
\* sequential retry returns 0 coins, adds the increase once, and leaves the
\* record one uncrashed call would have left.
C10_RetryAfterCrash ==
    \A p \in Procs :
        LET snap == crash[p].player
            k == snap._id
            mid == req[p].milestone_id
            rev == snap.revenue_usd + RevInc(req[p].revenue_increase)
        IN /\ (pc[p] = "crashed" /\ CrashedInWindow(p)) =>
                 /\ mid \in Range(player[k].completed_milestones)
                 /\ player[k].av_coins = snap.av_coins + AwardFor(req[p].speed)
                 /\ player[k].revenue_usd = snap.revenue_usd
           /\ (pc[p] = "idle" /\ CrashedInWindow(p)) =>
                 /\ hist[Len(hist)].retry
                 /\ hist[Len(hist)].av_coins_awarded = 0
                 /\ hist[Len(hist)].revenue_usd = rev
                 /\ player[k].av_coins = snap.av_coins + AwardFor(req[p].speed)
                 /\ player[k].revenue_usd = rev
                 /\ NoDuplicates(player[k].completed_milestones)
                 /\ Range(player[k].completed_milestones) =
                        Range(snap.completed_milestones) \cup {mid}
                 /\ player[k].unlocked_worlds =
                        IF rev >= WorldThreshold
                          THEN AddToSet(snap.unlocked_worlds, "world_1")
                          ELSE snap.unlocked_worlds
                 /\ [player[k] EXCEPT !.av_coins = 0, !.revenue_usd = 0,
                                      !.completed_milestones = <<>>,
                                      !.unlocked_worlds = <<>>]
                        = [snap EXCEPT !.av_coins = 0, !.revenue_usd = 0,
                                       !.completed_milestones = <<>>,
                                       !.unlocked_worlds = <<>>]

\* m2 after m1, increase 1000, crashed once the world_1 unlock was written;
\* the retry returned 0 coins and stored revenue 1000.
C10_Witness ==
    /\ pc[1] = "idle" /\ CrashedInWindow(1)
    /\ crash[1].at = "revwrite"
    /\ Len(hist) = 2 /\ hist[2].retry
    /\ hist[2].av_coins_awarded = 0 /\ hist[2].unlocked_world = None
    /\ player[1].revenue_usd = 1000
    /\ player[1].unlocked_worlds = <<"world_1">>
    /\ Len(player[1].completed_milestones) = 2

\* The award the speed table promises, with the spellings written out.
ExpectedAward(speed) ==
    IF speed \in {"fast", "FAST", "Fast"} THEN 150
    ELSE IF speed \in {"slow", "SLOW"} THEN 115
    ELSE 130

\* The call that returned last was a first-time completion.
LastWasFirstTime ==
    /\ AllIdle /\ hist # <<>>
    /\ hist[Len(hist)].status = 200
    /\ req[1].milestone_id \notin Range(loc[1].player.completed_milestones)

\* C11: a first-time completion awards 100 plus the speed bonus (150 for
\* fast, 130 for normal, 115 for slow, in any letter case; 130 for any other
\* or absent speed), and the coins returned, the amount added to the balance
\* and the coins of the reward record written are that same value.
C11_AwardBySpeed ==
    LastWasFirstTime =>
        LET h == hist[Len(hist)]
            k == h.player_id
            r == reward[Len(reward)]
        IN /\ h.av_coins_awarded = ExpectedAward(req[1].speed)
           /\ player[k].av_coins - loc[1].player.av_coins = ExpectedAward(req[1].speed)
           /\ r.player_id = k /\ r.milestone_id = h.milestone_id
           /\ r.coins = ExpectedAward(req[1].speed)

\* "FAST" was awarded 150, then "turbo" 130: balance 280, both on record.
C11_Witness ==
    /\ LastWasFirstTime /\ Len(hist) = 2
    /\ hist[1].av_coins_awarded = 150 /\ reward[1].coins = 150
    /\ reward[1].reason[3] = "fast"
    /\ req[1].speed = "turbo"
    /\ hist[2].av_coins_awarded = 130 /\ reward[2].coins = 130
    /\ player[1].av_coins = 280

\* A player with this email is stored.
Registered(email) == \E i \in DOMAIN player : player[i].email = email

\* The step returned a new response of complete_milestone.
Returned404 ==
    /\ Len(hist') = Len(hist) + 1
    /\ hist'[Len(hist')].status = 404

\* The step returned a new response of handler op.
Answered(op) ==
    /\ Len(rlog') = Len(rlog) + 1
    /\ rlog'[Len(rlog')].op = op

StoreUnchanged ==
    player' = player /\ reward' = reward /\ milestone' = milestone

\* C12: complete_milestone and player_summary answer NotFound exactly when
\* no player has the email, and such a call leaves the whole store as it
\* was; complete_milestone has no outcome other than success and NotFound.
C12_NotFoundLeavesStore ==
    /\ [](\A i \in DOMAIN hist : hist[i].status \in {200, 404})
    /\ [][Returned404 => (~Registered(req'[1].player_email) /\ StoreUnchanged)]_vars
    /\ [][(pc[1] = "idle" /\ calls' = calls + 1) =>
             (Returned404 <=> ~Registered(req'[1].player_email))]_vars
    /\ [][Answered("player_summary") =>
             /\ StoreUnchanged
             /\ (rlog'[Len(rlog')].status = 404) <=>
                    ~Registered(rlog'[Len(rlog')].email)
             /\ rlog'[Len(rlog')].status \in {200, 404}]_vars

\* With a rewarded player stored, a completion and a summary for another,
\* unknown email were both answered NotFound.
C12_Witness ==
    /\ AllIdle /\ Len(player) = 1 /\ player[1].av_coins = 150
    /\ Len(reward) = 1
    /\ \E i \in DOMAIN hist : hist[i].status = 404
    /\ \E i \in DOMAIN rlog :
          /\ rlog[i].op = "player_summary" /\ rlog[i].status = 404
          /\ ~Registered(rlog[i].email)

CatalogIds == {"m1", "m2", "m3", "m4", "m5", "m6", "m7", "m8", "m9", "m10", "m11"}

\* Positions of the stored milestone documents with this id.
EntriesOf(store, id) == {i \in DOMAIN store : store[i].milestone_id = id}

BootstrapCalls == {i \in DOMAIN rlog : rlog[i].op = "bootstrap"}

\* C14: from any stored collection, a bootstrap call returns the number of
\* catalog ids m1..m11 that were missing just before it and leaves each of
\* them stored exactly once; once bootstrap has run no catalog id is
\* missing, so every later call returns 0 and leaves the collection as the
\* first call left it.
C14_BootstrapIdempotent ==
    /\ [][Answered("bootstrap") =>
             LET missing == {id \in CatalogIds : EntriesOf(milestone, id) = {}}
             IN /\ rlog'[Len(rlog')].value = Cardinality(missing)
                /\ \A id \in missing : Cardinality(EntriesOf(milestone', id)) = 1
                /\ Len(milestone') = Len(milestone) + Cardinality(missing)
                /\ missing = {} => milestone' = milestone]_vars
    /\ [](BootstrapCalls # {} =>
             \A id \in CatalogIds : EntriesOf(milestone, id) # {})
    /\ [](\A i, j \in BootstrapCalls : i < j => rlog[j].value = 0)

\* On a collection holding only an old m1 and an extra entry, three calls
\* returned 10, 0 and 0 and left 12 entries.
C14_Witness ==
    /\ Len(rlog) = 3 /\ BootstrapCalls = {1, 2, 3}
    /\ rlog[1].value = 10 /\ rlog[2].value = 0 /\ rlog[3].value = 0
    /\ Len(milestone) = 12
    /\ milestone[1].title = "Bienvenida"
    /\ Cardinality(EntriesOf(milestone, "m1")) = 1

\* C15: no step removes or changes a stored milestone entry: every entry
\* stored before a step is stored unchanged, at its place, after it, also
\* when its title or order differ from the catalog's.
C15_BootstrapAdditiveOnly ==
    [][/\ Len(milestone') >= Len(milestone)
       /\ SubSeq(milestone', 1, Len(milestone)) = milestone]_vars

\* bootstrap ran on a collection whose m1 has another title and order: that
\* entry is still the only m1, with its own title and order.
C15_Witness ==
    /\ BootstrapCalls # {}
    /\ rlog[1].value = 10
    /\ milestone[2] = WithId(Item("m1", "Bienvenida", 5), 2)
    /\ milestone[1].milestone_id = "x2"
    /\ EntriesOf(milestone, "m1") = {2}
    /\ Len(milestone) = 12

\* The sort key as the claim states it.
KeyOf(doc) == IF doc.order = <<>> THEN 999 ELSE doc.order[1]

\* The elements of list whose key is k, in their order in list.
WithKey(list, k) ==
    LET Test(doc) == KeyOf(doc) = k
    IN SelectSeq(list, Test)

AtomicComplete(doc, r) ==
    LET done == Range(doc.completed_milestones)
        worlds == Range(doc.unlocked_worlds)
        award == IF r.milestone_id \in done THEN 0 ELSE ExpectedAward(r.speed)
        increase == IF r.revenue_increase = <<>> THEN 0 ELSE r.revenue_increase[1]
        newRevenue == doc.revenue_usd + increase
        unlock == newRevenue >= 1000 /\ "world_1" \notin worlds
    IN [coins |-> doc.av_coins + award,
        revenue |-> newRevenue,
        completed |-> done \cup {r.milestone_id},
        worlds |-> IF unlock THEN worlds \cup {"world_1"} ELSE worlds,
        coinsAwarded |-> award,
        unlockedWorld |-> IF unlock THEN "world_1" ELSE "None"]

\* The last call ran from its read to its response.
LastRanToCompletion ==
    /\ AllIdle /\ hist # <<>>
    /\ hist[Len(hist)].status = 200

\* C16: a call that runs its separate writes to completion, alone, leaves
\* the player record and returns the result that the single atomic update
\* of section 4.2 gives on the record the call read.
C16_SplitWritesMatchAtomic ==
    LastRanToCompletion =>
        LET pre == loc[1].player
            now == player[pre._id]
            h == hist[Len(hist)]
            atom == AtomicComplete(pre, req[1])
        IN /\ now.av_coins = atom.coins
           /\ now.revenue_usd = atom.revenue
           /\ Range(now.completed_milestones) = atom.completed
           /\ NoDuplicates(now.completed_milestones)
           /\ Range(now.unlocked_worlds) = atom.worlds
           /\ NoDuplicates(now.unlocked_worlds)
           /\ now._id = pre._id /\ now.name = pre.name /\ now.email = pre.email
           /\ h.av_coins_awarded = atom.coinsAwarded
           /\ h.revenue_usd = atom.revenue
           /\ h.unlocked_world = atom.unlockedWorld

\* One uncrashed call did all three writes: 150 coins for "FAST", world_1
\* unlocked, revenue 1000.
C16_Witness ==
    /\ LastRanToCompletion /\ Len(hist) = 1
    /\ crash[1].at = "none"
    /\ req[1].speed = "FAST"
    /\ hist[1].av_coins_awarded = 150
    /\ hist[1].unlocked_world = "world_1"
    /\ player[1].av_coins = 150 /\ player[1].revenue_usd = 1000
    /\ player[1].unlocked_worlds = <<"world_1">>

\* C18: in every state, between the writes of a handler and under any
\* interleaving of handlers, a player whose stored revenue is at least 1000
\* has world_1 among its unlocked worlds.
C18_RevenueImpliesWorld ==
    \A k \in DOMAIN player :
        player[k].revenue_usd >= 1000 =>
            "world_1" \in Range(player[k].unlocked_worlds)

\* One handler has stored revenue 1000 and returned; the other, which read
\* the player before that, has issued its own unlock and not yet written its
\* revenue.
C18_Witness ==
    /\ Len(hist) = 1 /\ hist[1].unlocked_world = "world_1"
    /\ player[1].revenue_usd = 1000
    /\ player[1].unlocked_worlds = <<"world_1">>
    /\ \E p \in Procs :
          /\ pc[p] = "revwrite"
          /\ loc[p].unlocked = "world_1"
          /\ loc[p].player.revenue_usd = 0

\* C19: once all interleaved calls have returned, the milestone id of every
\* successful call is in the player's completed_milestones.
C19_NoCompletionLost ==
    AllIdle =>
        \A i \in DOMAIN hist :
            hist[i].status = 200 =>
                hist[i].milestone_id \in
                    Range(player[hist[i].player_id].completed_milestones)

\* C20: once all interleaved calls have returned, the stored revenue of a
\* player is its initial revenue, 0, plus the increases of all its calls.
C20_NoIncrementLost ==
    AllIdle =>
        \A k \in DOMAIN player :
            player[k].revenue_usd = SumIncrease(CallsOf(k))

====
